---- MODULE Spec2Model ----
(***************************************************************************)
(* The kernel-event policy agent of uranus: the two ProcessWorker          *)
(* revisions (package judge: counter threshold; package background:        *)
(* persisted status, config and watchdog), their Start / run / Stop        *)
(* sequences and their sqlite tables.                                      *)
(***************************************************************************)
EXTENDS Naturals, Sequences, FiniteSets, TLC

VARIABLES
    variant,        \* which ProcessWorker revision this process runs
    judgeTable,     \* rows of table judge(id, cmd, times); id = position
    processTable,   \* rows of table process(id, cmd, count, judge, status)
    coreStatus,     \* persisted config value of proc::core::status
    config,         \* w.config: "nil" until initDB sets it
    running,        \* w.running
    wg,             \* w.wg counter
    conn,           \* connector state: closed, open, shut (Shutdown called), gone (Close called)
    pc,             \* position of the control thread (caller of Start and Stop)
    loop,           \* position of the goroutine w.run
    sent,           \* every message handed to conn.Send by this process, in order
    kills,          \* syscall.Kill(SIGINT) calls issued by the receive loop
    dog,            \* the watchdog created by run
    startFault,     \* history: the startup step that failed in this process
    seen0,          \* history: commands that had a record in the initial store
    reported,       \* history: per command, trust-updates that returned no error
    split           \* one use of ParseHackernelCmd: its input and its result

vars == <<variant, judgeTable, processTable, coreStatus, config, running, wg, conn,
          pc, loop, sent, kills, dog, startFault, seen0, reported, split>>

----------------------------------------------------------------------------
(* Bounds of the model *)

Cmds == {"c1", "c2"}
JudgeCodes == {0, 1}
MaxTimes == 4
MaxCount == 3
MaxKills == 1
TicksPerInterval == 2
MaxStrLen == 1
MaxTokens == 2

(* Program constants *)

Threshold == 3
StatusTrusted == 2
ProcessCoreEnable == "enabled"

----------------------------------------------------------------------------
(* Messages *)

Msg(type, arg, by) == [type |-> type, arg |-> arg, by |-> by]

MsgEnable(by)      == Msg("user::proc::enable", "", by)
MsgDisable(by)     == Msg("user::proc::disable", "", by)
MsgSub(sec, by)    == Msg("user::msg::sub", sec, by)
MsgUnsub(sec, by)  == Msg("user::msg::unsub", sec, by)

\* setTrustedCmd that loses the command string
setTrustedCmdBlank(cmd, by) == Msg("user::proc::trusted::insert", "", by)

\* the JSON document built by setTrustedCmd: type and the exact cmd string
setTrustedCmd(cmd, by) == Msg("user::proc::trusted::insert", cmd, by)

\* inbound documents: valid JSON or not, and the "type" member absent,
\* present but no string, or a string
Doc(wf, type, cmd, judge) == [wf |-> wf, type |-> type, cmd |-> cmd, judge |-> judge]

\* audit reports: both judgment codes for c1, one for c2
AuditDocs ==
    {Doc(TRUE, "audit::proc::report", "c1", j) : j \in JudgeCodes}
    \cup {Doc(TRUE, "audit::proc::report", "c2", 1)}

Inbound ==
    AuditDocs
    \cup {Doc(TRUE, "osinfo::report", "", 0),
          Doc(TRUE, "kernel::proc::enable", "", 0),
          Doc(TRUE, "<absent>", "", 0),
          Doc(TRUE, "<nonstring>", "", 0),
          Doc(FALSE, "<absent>", "", 0)}

\* json.Unmarshal into struct{Type string; Cmd string; Judge int}
UnmarshalEvent(m) ==
    IF ~m.wf \/ m.type = "<nonstring>"
    THEN [err |-> TRUE, Type |-> "", Cmd |-> "", Judge |-> 0]
    ELSE [err |-> FALSE,
          Type |-> IF m.type = "<absent>" THEN "" ELSE m.type,
          Cmd |-> m.cmd, Judge |-> m.judge]

\* json.Unmarshal into map[string]interface{}
UnmarshalDoc(m) == [err |-> ~m.wf, doc |-> m]

\* doc["type"].(string): the assertion panics unless the member is a string
TypeAssertPanics(doc) == doc.type \in {"<absent>", "<nonstring>"}

----------------------------------------------------------------------------
(* Tables *)

RowsOf(t, cmd) == {i \in DOMAIN t : t[i].cmd = cmd}

Min(S) == CHOOSE x \in S : \A y \in S : x <= y

\* judge: select id, times from judge where cmd=? limit 1
sqlQueryTimesByCmd(t, cmd) ==
    IF RowsOf(t, cmd) = {} THEN [norows |-> TRUE, id |-> 0, times |-> 0]
    ELSE [norows |-> FALSE, id |-> Min(RowsOf(t, cmd)), times |-> t[Min(RowsOf(t, cmd))].times]

\* judge: insert into judge(cmd) values(?), times defaults to 1
sqlInsertCmd(t, cmd) == Append(t, [cmd |-> cmd, times |-> 1])

\* an update that writes to the first row, whatever the id
sqlUpdateCmdTimesFirst(t, times, id) == [t EXCEPT ![1].times = times]

\* judge: update judge set times=? where id=?
sqlUpdateCmdTimes(t, times, id) == [t EXCEPT ![id].times = times]

\* a query that selects only the counts above the threshold
sqlQueryCmdByTimesAbove(t, n) ==
    LET hit == SelectSeq(t, LAMBDA r : r.times > n)
    IN  [i \in DOMAIN hit |-> hit[i].cmd]

\* judge: select cmd from judge where times >= ?
sqlQueryCmdByTimes(t, n) ==
    LET hit == SelectSeq(t, LAMBDA r : r.times >= n)
    IN  [i \in DOMAIN hit |-> hit[i].cmd]

\* judge.updateCmdTimes; fault is the statement that fails, if any
updateCmdTimes(t, cmd, fault) ==
    LET q == sqlQueryTimesByCmd(t, cmd) IN
    IF fault # "none" THEN [err |-> TRUE, table |-> t, times |-> 0]
    ELSE IF q.norows
         THEN [err |-> FALSE, table |-> sqlInsertCmd(t, cmd), times |-> 1]
         ELSE [err |-> FALSE, table |-> sqlUpdateCmdTimes(t, q.times + 1, q.id),
               times |-> q.times + 1]

\* a loop that announces only at the crossing
ReachedThresholdOnce(times) == times = Threshold

\* judge.run: "if times < 3 { continue }" before setTrustedCmd
ReachedThreshold(times) == ~(times < Threshold)

\* an update that sets the judgment but leaves the count
sqlUpdateCountKeep(t, judge, cmd) ==
    [table |-> [i \in DOMAIN t |->
                  IF t[i].cmd = cmd THEN [t[i] EXCEPT !.judge = judge] ELSE t[i]],
     affected |-> Cardinality(RowsOf(t, cmd))]

\* an update that also marks the record trusted once its count reaches 3
sqlUpdateCountPromote(t, judge, cmd) ==
    [table |-> [i \in DOMAIN t |->
                  IF t[i].cmd = cmd
                  THEN [t[i] EXCEPT !.count = @ + 1, !.judge = judge,
                                    !.status = IF t[i].count + 1 >= Threshold
                                               THEN StatusTrusted ELSE @]
                  ELSE t[i]],
     affected |-> Cardinality(RowsOf(t, cmd))]

\* background: update process set count=count+1,judge=? where cmd=?
sqlUpdateCount(t, judge, cmd) ==
    [table |-> [i \in DOMAIN t |->
                  IF t[i].cmd = cmd
                  THEN [t[i] EXCEPT !.count = @ + 1, !.judge = judge]
                  ELSE t[i]],
     affected |-> Cardinality(RowsOf(t, cmd))]

\* an insert that files the new record as pending
sqlInsertPending(t, cmd, judge) ==
    IF RowsOf(t, cmd) # {}
    THEN [err |-> TRUE, table |-> t]
    ELSE [err |-> FALSE,
          table |-> Append(t, [cmd |-> cmd, count |-> 1, judge |-> judge, status |-> 1])]

\* background: insert into process(cmd,...,count,judge,status) values(?,...,1,?,0);
\* cmd is declared unique, so a second row for cmd is refused
sqlInsert(t, cmd, judge) ==
    IF RowsOf(t, cmd) # {}
    THEN [err |-> TRUE, table |-> t]
    ELSE [err |-> FALSE,
          table |-> Append(t, [cmd |-> cmd, count |-> 1, judge |-> judge, status |-> 0])]

\* a query that also selects pending records
sqlQueryStatusNonzero(t) ==
    LET hit == SelectSeq(t, LAMBDA r : r.status # 0)
    IN  [i \in DOMAIN hit |-> hit[i].cmd]

\* background: select cmd from process where status=2
sqlQueryStatusAllow(t) ==
    LET hit == SelectSeq(t, LAMBDA r : r.status = StatusTrusted)
    IN  [i \in DOMAIN hit |-> hit[i].cmd]

\* background.updateCmd; fault is the statement that fails, if any
updateCmd(t, cmd, judge, fault) ==
    LET u == sqlUpdateCount(t, judge, cmd) IN
    IF fault = "update" THEN [err |-> TRUE, table |-> t]
    ELSE IF u.affected # 0 THEN [err |-> FALSE, table |-> u.table]
    ELSE IF fault = "insert" THEN [err |-> TRUE, table |-> t]
    ELSE sqlInsert(t, cmd, judge)

StoreFaults == {"none", "update", "insert"}

\* the occurrence count the store holds for cmd (0: no record)
Count(cmd) ==
    IF variant = "judge"
    THEN IF RowsOf(judgeTable, cmd) = {} THEN 0
         ELSE judgeTable[Min(RowsOf(judgeTable, cmd))].times
    ELSE IF RowsOf(processTable, cmd) = {} THEN 0
         ELSE processTable[Min(RowsOf(processTable, cmd))].count

----------------------------------------------------------------------------
(* Watchdog (pkg/watchdog): a deadline, and whether the callback has run *)

NoDog == [armed |-> FALSE, elapsed |-> 0, fired |-> 0]

\* watchdog.New(interval, callback) arms the timer
WatchdogNew == [armed |-> TRUE, elapsed |-> 0, fired |-> 0]

\* dog.Kick() resets the deadline
Kick(d) == [armed |-> TRUE, elapsed |-> 0, fired |-> 0]

\* a loop that kicks on every type it has no case for
KicksWatchdogOnAny(type) == TRUE

\* a loop that never kicks
KicksWatchdogNever(type) == FALSE

\* background.run: case "osinfo::report": dog.Kick()
KicksWatchdog(type) == type = "osinfo::report"

----------------------------------------------------------------------------
(* Raw commands: workdir, binary and argument tokens joined by the unit
   separator; a string is a sequence of characters *)

US == "<US>"

Chars == {"a", " "}

\* strings without the separator, of bounded length
Strs == UNION {[1..n -> Chars] : n \in 0..MaxStrLen}

TokenLists == UNION {[1..n -> Strs] : n \in 0..MaxTokens}

RECURSIVE Join(_, _)
\* strings.Join(list, sep)
Join(list, sep) ==
    IF Len(list) = 0 THEN <<>>
    ELSE IF Len(list) = 1 THEN list[1]
    ELSE list[1] \o sep \o Join(Tail(list), sep)

RECURSIVE Split(_)
\* strings.Split(s, "\u001f"): the pieces between the separators, one more
\* than there are separators
Split(s) ==
    IF \A i \in DOMAIN s : s[i] # US THEN <<s>>
    ELSE LET i == Min({k \in DOMAIN s : s[k] = US})
         IN  <<SubSeq(s, 1, i - 1)>> \o Split(SubSeq(s, i + 1, Len(s)))

RECURSIVE AppendArgs(_, _, _)
\* for i := 3; i < len(raw); i++ { argv += fmt.Sprintf(" %s", raw[i]) }
\* (i counts from 0 there, from 1 here)
AppendArgs(raw, i, argv) ==
    IF i > Len(raw) THEN argv
    ELSE AppendArgs(raw, i + 1, argv \o <<" ">> \o raw[i])

Panic == [panic |-> TRUE, workdir |-> <<>>, exec |-> <<>>, argv |-> <<>>]

\* telegram.ParseHackernelCmd: raw[0], raw[1] and raw[2] are read without a
\* test of len(raw); an index out of range panics
ParseHackernelCmd(cmd) ==
    LET raw == Split(cmd) IN
    IF Len(raw) < 3 THEN Panic
    ELSE [panic |-> FALSE, workdir |-> raw[1], exec |-> raw[2],
          argv |-> AppendArgs(raw, 4, raw[3])]

NoSplit == [stage |-> "none", workdir |-> <<>>, binary |-> <<>>, tokens |-> <<>>,
            cmd |-> <<>>, out |-> Panic]

----------------------------------------------------------------------------
(* Initial state: a fresh process over a store that may already hold records *)

\* records that are already there: rows the agent itself writes (status 0)
\* come about through Restart; a status other than 0 is set from outside
InitCounts == {1}
ExternalStatus == {1, 2}

ProcessRows ==
    [cmd : Cmds, count : InitCounts, judge : {0}, status : ExternalStatus]

\* tables that satisfy the unique constraint on cmd
InitProcessTables ==
    {<<>>} \cup {<<r>> : r \in ProcessRows}
    \cup {p \in ProcessRows \X ProcessRows : p[1].cmd = "c1" /\ p[2].cmd = "c2"}

Init ==
    /\ variant \in {"judge", "background"}
    /\ judgeTable = <<>>
    /\ IF variant = "judge"
       THEN processTable = <<>> /\ coreStatus = "disabled"
       ELSE processTable \in InitProcessTables
            /\ coreStatus \in {"enabled", "disabled", "absent"}
    /\ config = "nil"
    /\ running = FALSE
    /\ wg = 0
    /\ conn = "closed"
    /\ pc = "init"
    /\ loop = "none"
    /\ sent = <<>>
    /\ kills = 0
    /\ dog = NoDog
    /\ startFault = "none"
    /\ seen0 = {c \in Cmds : RowsOf(processTable, c) # {}}
    /\ reported = [c \in Cmds |-> 0]
    /\ split = NoSplit

----------------------------------------------------------------------------
(* Start *)

\* the ways one execution of Start can fail: Connect, initDB, the k-th Send,
\* the query of initTrustedCmd, or rows.Scan after k rows
StartFaults(S, R) ==
    {[kind |-> x, k |-> 0] : x \in {"none", "connect", "initdb", "query"}}
    \cup {[kind |-> "send", k |-> k] : k \in 1..(Len(S) + Len(R))}
    \cup {[kind |-> "scan", k |-> k] : k \in 0..(Len(R) - 1)}

\* initTrustedCmd: one setTrustedCmd per selected row, its error discarded
ReplayMsgs(R) == [i \in DOMAIN R |-> setTrustedCmd(R[i], "start")]

\* does a failing k-th Send make Start return? Only the Sends whose error
\* Start itself tests do; setTrustedCmd's result is dropped inside the loop
\* of initTrustedCmd
SendAborts(S, k) == k <= Len(S)

\* a Start that replays before it enables and subscribes
StartSendsReplayFirst(S, R) == ReplayMsgs(R) \o S

\* the Send calls of a Start that meets no failure: enable and subscriptions,
\* then initTrustedCmd
StartSends(S, R) == S \o ReplayMsgs(R)

\* where Start ends for fault f: the Send calls made, and whether it returns nil
StartOutcome(S, R, f) ==
    LET all == StartSends(S, R) IN
    CASE f.kind = "connect" -> [ok |-> FALSE, sent |-> <<>>, conn |-> "closed", config |-> "nil"]
      [] f.kind = "initdb"  -> [ok |-> FALSE, sent |-> <<>>, conn |-> "open", config |-> "nil"]
      [] f.kind = "send" /\ SendAborts(S, f.k)
                            -> [ok |-> FALSE, sent |-> SubSeq(all, 1, f.k), conn |-> "open", config |-> "set"]
      [] f.kind = "query"   -> [ok |-> FALSE, sent |-> S, conn |-> "open", config |-> "set"]
      [] f.kind = "scan"    -> [ok |-> FALSE, sent |-> SubSeq(all, 1, Len(S) + f.k), conn |-> "open", config |-> "set"]
      [] OTHER              -> [ok |-> TRUE, sent |-> all, conn |-> "open", config |-> "set"]

FaultName(S, f) ==
    IF f.kind = "send" /\ f.k > Len(S) THEN "replay_send" ELSE f.kind

StartWith(S, R, keepConfig) ==
    \E f \in StartFaults(S, R) :
        LET o == StartOutcome(S, R, f) IN
        /\ running' = TRUE
        /\ conn' = o.conn
        /\ config' = IF keepConfig THEN config ELSE o.config
        /\ sent' = sent \o o.sent
        /\ startFault' = FaultName(S, f)
        /\ IF o.ok
           THEN wg' = wg + 1 /\ loop' = "spawned" /\ pc' = "started"
           ELSE wg' = wg /\ loop' = loop /\ pc' = "start_err"

\* judge.ProcessWorker.Start
JStart ==
    /\ variant = "judge" /\ pc = "init"
    /\ StartWith(<<MsgEnable("start"), MsgSub("audit::proc::report", "start")>>,
                 sqlQueryCmdByTimes(judgeTable, Threshold), TRUE)
    /\ UNCHANGED <<split, variant, judgeTable, processTable, coreStatus, kills, dog,
                   seen0, reported>>

\* config.GetInteger("proc::core::status"): the stored value, or an error when
\* the key is absent or the read fails
ConfigReads ==
    {[err |-> TRUE, value |-> "absent"]}
    \cup (IF coreStatus = "absent" THEN {} ELSE {[err |-> FALSE, value |-> coreStatus]})

\* a test that takes a failed read for the enabled value
CoreEnabledOnError(rd) == rd.err \/ rd.value = ProcessCoreEnable

\* "if err == nil && coreStatus == status.ProcessCoreEnable"
CoreEnabled(rd) == ~rd.err /\ rd.value = ProcessCoreEnable

\* background.ProcessWorker.Start, GetInteger returning rd
BStartRead(rd) ==
    /\ variant = "background" /\ pc = "init"
    /\ StartWith((IF CoreEnabled(rd) THEN <<MsgEnable("start")>> ELSE <<>>)
                   \o <<MsgSub("audit::proc::report", "start"),
                        MsgSub("osinfo::report", "start")>>,
                 sqlQueryStatusAllow(processTable), FALSE)
    /\ UNCHANGED <<split, variant, judgeTable, processTable, coreStatus, kills, dog,
                   seen0, reported>>

BStart == \E rd \in ConfigReads : BStartRead(rd)

----------------------------------------------------------------------------
(* The receive loop *)

\* what conn.Recv() can return: a transport error, or a document; once the
\* connector was shut down or closed it returns an error at once
ErrResult == [err |-> TRUE, msg |-> Doc(FALSE, "<absent>", "", 0)]

RecvResults ==
    IF conn = "open"
    THEN {ErrResult} \cup {[err |-> FALSE, msg |-> m] : m \in Inbound}
    ELSE {ErrResult}

\* background.run, first statements: defer wg.Done(); dog := watchdog.New(...)
BLoopBegin ==
    /\ variant = "background" /\ pc # "crashed" /\ loop = "spawned"
    /\ dog' = WatchdogNew
    /\ loop' = "test"
    /\ UNCHANGED <<split, variant, judgeTable, processTable, coreStatus, config, running, wg,
                   conn, pc, sent, kills, startFault, seen0, reported>>

\* judge.run has nothing before its loop
JLoopBegin ==
    /\ variant = "judge" /\ pc # "crashed" /\ loop = "spawned"
    /\ loop' = "test"
    /\ UNCHANGED <<split, variant, judgeTable, processTable, coreStatus, config, running, wg,
                   conn, pc, sent, kills, dog, startFault, seen0, reported>>

\* a loop that returns without wg.Done()
LoopTestNoDone ==
    /\ pc # "crashed" /\ loop = "test"
    /\ loop' = IF running THEN "recv" ELSE "done"
    /\ UNCHANGED <<split, variant, judgeTable, processTable, coreStatus, config, running, wg,
                   conn, pc, sent, kills, dog, startFault, seen0, reported>>

\* "for w.running": enter the body, or leave the loop and run wg.Done()
LoopTest ==
    /\ pc # "crashed" /\ loop = "test"
    /\ IF running
       THEN loop' = "recv" /\ wg' = wg
       ELSE loop' = "done" /\ wg' = wg - 1
    /\ UNCHANGED <<split, variant, judgeTable, processTable, coreStatus, config, running,
                   conn, pc, sent, kills, dog, startFault, seen0, reported>>

\* one iteration of background.run from the return of Recv on
BIteration(r, fault, t, d, isRunning) ==
    LET ev == UnmarshalEvent(r.msg)
        u  == updateCmd(t, ev.Cmd, ev.Judge, fault)
        same == [exit |-> FALSE, kill |-> 0, table |-> t, dog |-> d, ok |-> FALSE]
    IN
    IF ~isRunning THEN [same EXCEPT !.exit = TRUE]
    ELSE IF r.err THEN [same EXCEPT !.kill = 1]
    ELSE IF ev.err THEN [same EXCEPT !.kill = 1]
    ELSE IF ev.Type = "audit::proc::report"
         THEN IF u.err THEN [same EXCEPT !.kill = 1]
              ELSE [same EXCEPT !.table = u.table, !.ok = TRUE]
    ELSE IF KicksWatchdog(ev.Type) THEN [same EXCEPT !.dog = Kick(d)]
    ELSE same

\* background.run: Recv returns r and the iteration runs to its end
BReceive(r, fault) ==
    LET o == BIteration(r, fault, processTable, dog, running) IN
    /\ variant = "background" /\ pc # "crashed" /\ loop = "recv"
    /\ kills + o.kill <= MaxKills
    /\ \A i \in DOMAIN o.table : o.table[i].count <= MaxCount
    /\ processTable' = o.table
    /\ dog' = o.dog
    /\ kills' = kills + o.kill
    /\ reported' = IF o.ok THEN [reported EXCEPT ![r.msg.cmd] = @ + 1] ELSE reported
    /\ IF o.exit
       THEN loop' = "done" /\ wg' = wg - 1
       ELSE loop' = "test" /\ wg' = wg
    /\ UNCHANGED <<split, variant, judgeTable, coreStatus, config, running, conn, pc, sent,
                   startFault, seen0>>

BLoopRecv == \E r \in RecvResults, fault \in StoreFaults : BReceive(r, fault)

\* one iteration of judge.run from the return of Recv on
JIteration(r, fault, t) ==
    LET d == UnmarshalDoc(r.msg)
        u == updateCmdTimes(t, d.doc.cmd, fault)
        same == [panic |-> FALSE, table |-> t, send |-> <<>>, ok |-> FALSE]
    IN
    IF r.err THEN same
    ELSE IF d.err THEN same
    ELSE IF TypeAssertPanics(d.doc) THEN [same EXCEPT !.panic = TRUE]
    ELSE IF d.doc.type # "audit::proc::report" THEN same
    ELSE IF u.err THEN same
    ELSE IF ReachedThreshold(u.times)
         THEN [same EXCEPT !.table = u.table, !.ok = TRUE,
                           !.send = <<setTrustedCmd(d.doc.cmd, "loop")>>]
         ELSE [same EXCEPT !.table = u.table, !.ok = TRUE]

\* judge.run: Recv returns r and the iteration runs to its end
JReceive(r, fault) ==
    LET o == JIteration(r, fault, judgeTable) IN
    /\ variant = "judge" /\ pc # "crashed" /\ loop = "recv"
    /\ \A i \in DOMAIN o.table : o.table[i].times <= MaxTimes
    /\ judgeTable' = o.table
    /\ sent' = sent \o o.send
    /\ reported' = IF o.ok THEN [reported EXCEPT ![r.msg.cmd] = @ + 1] ELSE reported
    /\ IF o.panic
       THEN loop' = "panic" /\ pc' = "crashed"
       ELSE loop' = "test" /\ pc' = pc
    /\ UNCHANGED <<split, variant, processTable, coreStatus, config, running, wg, conn, kills,
                   dog, startFault, seen0>>

JLoopRecv == \E r \in RecvResults, fault \in {"none", "store"} : JReceive(r, fault)

----------------------------------------------------------------------------
(* Stop *)

\* Stop as far as time.Sleep: the Send calls U in order, the k-th failing
\* (k = 0: none fails); a failing Send makes Stop return at once
StopSendsWith(U, readsConfig) ==
    \E k \in 0..Len(U) :
        IF readsConfig /\ config = "nil" /\ (k = 0 \/ k > 2)
        THEN \* w.config.GetInteger on the nil *config.Config
             /\ sent' = sent \o SubSeq(U, 1, 2)
             /\ pc' = "crashed"
        ELSE /\ sent' = sent \o (IF k = 0 THEN U ELSE SubSeq(U, 1, k))
             /\ pc' = IF k = 0 THEN "stop_clear" ELSE "stop_err"

\* judge.ProcessWorker.Stop, up to the sleep
JStopSends ==
    /\ variant = "judge" /\ pc \in {"started", "start_err"}
    /\ StopSendsWith(<<MsgUnsub("audit::proc::report", "stop"), MsgDisable("stop")>>, FALSE)
    /\ UNCHANGED <<split, variant, judgeTable, processTable, coreStatus, config, running, wg,
                   conn, loop, kills, dog, startFault, seen0, reported>>

\* background.ProcessWorker.Stop, up to the sleep, GetInteger returning rd
BStopSendsRead(rd) ==
    /\ variant = "background" /\ pc \in {"started", "start_err"}
    /\ StopSendsWith(<<MsgUnsub("audit::proc::report", "stop"),
                       MsgUnsub("osinfo::report", "stop")>>
                     \o (IF CoreEnabled(rd) THEN <<MsgDisable("stop")>> ELSE <<>>),
                     TRUE)
    /\ UNCHANGED <<split, variant, judgeTable, processTable, coreStatus, config, running, wg,
                   conn, loop, kills, dog, startFault, seen0, reported>>

BStopSends == \E rd \in ConfigReads : BStopSendsRead(rd)

\* w.running = false
StopClear ==
    /\ pc = "stop_clear"
    /\ running' = FALSE
    /\ pc' = "stop_shutdown"
    /\ UNCHANGED <<split, variant, judgeTable, processTable, coreStatus, config, wg, conn,
                   loop, sent, kills, dog, startFault, seen0, reported>>

\* a Stop that goes on to wg.Wait() without calling Shutdown
StopShutdownSkipped ==
    /\ pc = "stop_shutdown"
    /\ pc' = "stop_wait"
    /\ UNCHANGED <<split, variant, judgeTable, processTable, coreStatus, config, running, wg,
                   conn, loop, sent, kills, dog, startFault, seen0, reported>>

\* err = w.conn.Shutdown(...); if err != nil { return }
StopShutdown ==
    /\ pc = "stop_shutdown"
    /\ \E ok \in BOOLEAN :
        IF ok THEN conn' = "shut" /\ pc' = "stop_wait"
              ELSE conn' = conn /\ pc' = "stop_err"
    /\ UNCHANGED <<split, variant, judgeTable, processTable, coreStatus, config, running, wg,
                   loop, sent, kills, dog, startFault, seen0, reported>>

\* a Stop that closes the connector without waiting for the loop
StopWaitNoJoin ==
    /\ pc = "stop_wait"
    /\ conn' = "gone"
    /\ pc' = "stopped"
    /\ UNCHANGED <<split, variant, judgeTable, processTable, coreStatus, config, running, wg,
                   loop, sent, kills, dog, startFault, seen0, reported>>

\* w.wg.Wait(); w.conn.Close(); return
StopWait ==
    /\ pc = "stop_wait"
    /\ wg = 0
    /\ conn' = "gone"
    /\ pc' = "stopped"
    /\ UNCHANGED <<split, variant, judgeTable, processTable, coreStatus, config, running, wg,
                   loop, sent, kills, dog, startFault, seen0, reported>>

----------------------------------------------------------------------------
(* Watchdog expiry, and the agent being started again *)

\* time passes for an armed watchdog; at the deadline the callback runs:
\* logrus.Error, syscall.Kill(SIGINT)
Tick ==
    /\ pc # "crashed" /\ dog.armed
    /\ dog' = IF dog.elapsed + 1 < TicksPerInterval
              THEN [dog EXCEPT !.elapsed = @ + 1]
              ELSE [armed |-> FALSE, elapsed |-> TicksPerInterval, fired |-> dog.fired + 1]
    /\ UNCHANGED <<split, variant, judgeTable, processTable, coreStatus, config, running, wg,
                   conn, pc, loop, sent, kills, startFault, seen0, reported>>

\* the process ends and a new one is started on the same store
Restart ==
    /\ pc \in {"stopped", "stop_err", "crashed"}
    /\ config' = "nil" /\ running' = FALSE /\ wg' = 0 /\ conn' = "closed"
    /\ pc' = "init" /\ loop' = "none" /\ sent' = <<>> /\ kills' = 0 /\ dog' = NoDog
    /\ startFault' = "none"
    /\ UNCHANGED <<split, variant, judgeTable, processTable, coreStatus, seen0, reported>>

Next ==
    \/ JStart \/ BStart
    \/ JLoopBegin \/ BLoopBegin \/ LoopTest \/ JLoopRecv \/ BLoopRecv
    \/ JStopSends \/ BStopSends \/ StopClear \/ StopShutdown \/ StopWait
    \/ Tick \/ Restart

Spec == Init /\ [][Next]_vars

\* Recv returning because the connector was shut down
LoopRecvShut == conn # "open" /\ (BLoopRecv \/ JLoopRecv)

\* the goroutine and the control thread are scheduled, a Recv on a shut
\* connector returns, and time passes for an armed watchdog; nothing obliges
\* the kernel to send, or the caller to call Start or Stop
Fairness ==
    /\ WF_vars(JLoopBegin) /\ WF_vars(BLoopBegin)
    /\ WF_vars(LoopTest) /\ WF_vars(LoopRecvShut)
    /\ WF_vars(StopClear) /\ WF_vars(StopShutdown) /\ WF_vars(StopWait)
    /\ WF_vars(Tick)

FairSpec == Init /\ [][Next]_vars /\ Fairness

----------------------------------------------------------------------------
(* ParseHackernelCmd on its own: a command is composed, encoded and parsed *)

\* the agent is not started
AgentIdle ==
    /\ variant = "background" /\ judgeTable = <<>> /\ processTable = <<>>
    /\ coreStatus = "absent" /\ config = "nil" /\ running = FALSE /\ wg = 0
    /\ conn = "closed" /\ pc = "init" /\ loop = "none" /\ sent = <<>> /\ kills = 0
    /\ dog = NoDog /\ startFault = "none" /\ seen0 = {} /\ reported = [c \in Cmds |-> 0]

SplitInit ==
    /\ AgentIdle
    /\ \E w \in Strs, b \in Strs, t \in TokenLists :
          split = [NoSplit EXCEPT !.stage = "composed", !.workdir = w, !.binary = b,
                                  !.tokens = t]

\* the raw command: workdir, binary and the tokens joined by the separator
Encode ==
    /\ split.stage = "composed"
    /\ split' = [split EXCEPT !.stage = "encoded",
                               !.cmd = Join(<<split.workdir, split.binary>> \o split.tokens,
                                            <<US>>)]
    /\ UNCHANGED <<variant, judgeTable, processTable, coreStatus, config, running, wg,
                   conn, pc, loop, sent, kills, dog, startFault, seen0, reported>>

\* workdir, exec, argv := ParseHackernelCmd(cmd)
Parse ==
    /\ split.stage = "encoded"
    /\ split' = [split EXCEPT !.stage = "parsed", !.out = ParseHackernelCmd(split.cmd)]
    /\ UNCHANGED <<variant, judgeTable, processTable, coreStatus, config, running, wg,
                   conn, pc, loop, sent, kills, dog, startFault, seen0, reported>>

SplitNext == Encode \/ Parse

SplitSpec == SplitInit /\ [][SplitNext]_vars

----------------------------------------------------------------------------
(* Properties *)

\* how many trust-insertion messages for cmd were handed to Send by "start"
\* (replay), or by "loop" (the receive loop)
InsertsBy(cmd, by) ==
    Cardinality({i \in DOMAIN sent :
                   sent[i] = [type |-> "user::proc::trusted::insert", arg |-> cmd, by |-> by]})

RowOf(t, cmd) == t[Min(RowsOf(t, cmd))]

Received(d) == [err |-> FALSE, msg |-> d]

(* C1, as stated: within one process the receive loop sends one trust-insertion
   message for a command exactly at the report that takes its count from below
   3 to 3, and none at any other report. *)
C1_OncePerCrossing ==
    [][pc' # "init" =>
         \A c \in Cmds :
            InsertsBy(c, "loop")' =
               InsertsBy(c, "loop")
                 + (IF Count(c) < Threshold /\ Count(c)' >= Threshold THEN 1 ELSE 0)]_vars

(* C1, amended: the loop of the judge worker sends one trust-insertion message
   for a command at every report that raises its count to 3 or more (at the
   crossing and at each later report) and none below 3; the loop of the
   background worker sends none at all. *)
C1_EveryReportFromThreshold ==
    [][pc' # "init" =>
         \A c \in Cmds :
            InsertsBy(c, "loop")' =
               InsertsBy(c, "loop")
                 + (IF variant = "judge" /\ Count(c)' > Count(c) /\ Count(c)' >= Threshold
                    THEN 1 ELSE 0)]_vars

C1_Witness ==
    variant = "judge" /\ Count("c1") = 4 /\ InsertsBy("c1", "loop") = 2

(* C2: a command that had no record holds a count equal to the number of its
   reports whose trust-update returned no error, whatever was reported for the
   other commands in between. *)
C2_CountEqualsReports ==
    \A c \in Cmds \ seen0 : Count(c) = reported[c]

C2_Witness ==
    /\ seen0 = {} /\ reported["c1"] = 3 /\ reported["c2"] = 2
    /\ Count("c1") = 3 /\ Count("c2") = 2

(* C3: in the background worker, a report (c, j) whose trust-update succeeds
   creates, when c has no record, exactly one record [count 1, judge j,
   status 0], and otherwise adds 1 to the count of c's one record and sets its
   judge to j; no other record changes and no second record appears. *)
C3_FirstReportCreates ==
    [][\A d \in AuditDocs :
         (running /\ reported' # reported
            /\ \E f \in StoreFaults : BReceive(Received(d), f))
         =>
         /\ \A i \in DOMAIN processTable :
               processTable[i].cmd # d.cmd => processTable'[i] = processTable[i]
         /\ Cardinality(RowsOf(processTable', d.cmd)) = 1
         /\ IF RowsOf(processTable, d.cmd) = {}
            THEN /\ Len(processTable') = Len(processTable) + 1
                 /\ RowOf(processTable', d.cmd) =
                       [cmd |-> d.cmd, count |-> 1, judge |-> d.judge, status |-> 0]
            ELSE /\ Len(processTable') = Len(processTable)
                 /\ RowOf(processTable', d.cmd) =
                       [RowOf(processTable, d.cmd) EXCEPT !.count = @ + 1,
                                                          !.judge = d.judge]]_vars

C3_Witness ==
    /\ variant = "background" /\ seen0 = {"c2"}
    /\ RowsOf(processTable, "c1") # {}
    /\ RowOf(processTable, "c1") = [cmd |-> "c1", count |-> 1, judge |-> 1, status |-> 0]
    /\ RowOf(processTable, "c2") = [cmd |-> "c2", count |-> 2, judge |-> 1, status |-> 2]

(* C4: once Start of the background worker has succeeded, the messages it sent
   hold exactly one trust-insertion per record of status 2, carrying that
   record's command, and none for any other command. *)
C4_ReplayTrusted ==
    (variant = "background" /\ loop # "none") =>
        \A c \in Cmds :
           InsertsBy(c, "start") =
              Cardinality({i \in DOMAIN processTable :
                             processTable[i].cmd = c /\ processTable[i].status = 2})

C4_Witness ==
    /\ variant = "background" /\ loop # "none"
    /\ InsertsBy("c1", "start") = 1 /\ InsertsBy("c2", "start") = 0
    /\ RowsOf(processTable, "c2") # {}

(* C5, as stated: from an empty store, a command reported three times has
   count 3 and the loop has sent exactly one trust-insertion message carrying
   it; below three reports the loop has sent none for it. *)
C5_ThreeReportsOneInsert ==
    (loop # "none" /\ seen0 = {}) =>
        \A c \in Cmds :
           InsertsBy(c, "start") = 0 =>
              /\ reported[c] = 3 => Count(c) = 3
              /\ Count(c) < 3 => InsertsBy(c, "loop") = 0
              /\ Count(c) = 3 => InsertsBy(c, "loop") = 1

(* C5, amended: that holds of the judge worker; in the background worker three
   reports leave count 3 and the loop sends no trust-insertion message. *)
C5_ThreeReportsJudge ==
    (loop # "none" /\ seen0 = {}) =>
        \A c \in Cmds :
           InsertsBy(c, "start") = 0 =>
              /\ reported[c] = 3 => Count(c) = 3
              /\ IF variant = "judge"
                 THEN /\ Count(c) < 3 => InsertsBy(c, "loop") = 0
                      /\ Count(c) = 3 => InsertsBy(c, "loop") = 1
                 ELSE InsertsBy(c, "loop") = 0

C5_Witness ==
    /\ variant = "judge" /\ seen0 = {} /\ InsertsBy("c1", "start") = 0
    /\ reported["c1"] = 3 /\ Count("c1") = 3 /\ InsertsBy("c1", "loop") = 1

(* C6: whenever Stop has returned, with or without an error, the receive loop
   that Start spawned has terminated. *)
C6_StopAlwaysJoins ==
    pc \in {"stopped", "stop_err"} => loop \in {"none", "done"}

(* C8: when a startup step failed, the receive loop was not started. *)
C8_StartFailFast ==
    startFault # "none" => loop = "none"

(* C9: a received document that is malformed JSON or has a missing or
   non-string type is dropped: no self-termination signal, no crash, no store
   change, no outbound message, and the loop goes on to its next iteration. *)
BadDocs ==
    {Doc(TRUE, "<absent>", "", 0), Doc(TRUE, "<nonstring>", "", 0),
     Doc(FALSE, "<absent>", "", 0)}

C9_BadDocDropped ==
    [][\A d \in BadDocs :
         (running /\ \E f \in StoreFaults :
                        BReceive(Received(d), f) \/ JReceive(Received(d), f))
         =>
         /\ kills' = kills
         /\ loop' = "test" /\ pc' = pc
         /\ UNCHANGED <<judgeTable, processTable, sent>>]_vars

(* C7: once Stop has cleared the running flag and Shutdown has returned, the
   receive loop that Start spawned exits and Stop's wg.Wait() returns, wherever the loop was,
   also when it had tested the flag before it was cleared and comes to Recv
   only afterwards. *)
C7_LoopExitsAfterShutdown ==
    (pc = "stop_wait" /\ loop # "none") ~> (pc = "stopped" /\ loop = "done")

C7_Witness ==
    pc = "stop_wait" /\ loop = "recv" /\ ~running /\ conn = "shut"

(* C10: the watchdog callback runs at most once per arming, and only at the
   deadline; an armed watchdog that is not kicked reaches its deadline and the
   callback runs; an osinfo::report handled by the loop kicks it, which puts
   the deadline a whole interval ahead and takes back nothing but resets. *)
C10_Watchdog ==
    /\ [](/\ dog.fired <= 1
          /\ dog.fired = 1 => (~dog.armed /\ dog.elapsed = TicksPerInterval)
          /\ dog.armed => dog.elapsed < TicksPerInterval)
    /\ [][dog'.fired > dog.fired =>
            (dog.armed /\ dog.elapsed = TicksPerInterval - 1 /\ dog'.fired = 1)]_vars
    /\ [][(running /\ \E f \in StoreFaults :
                         BReceive(Received(Doc(TRUE, "osinfo::report", "", 0)), f))
          => dog' = [armed |-> TRUE, elapsed |-> 0, fired |-> 0]]_vars
    /\ \A e \in 0..(TicksPerInterval - 1) :
          (dog.armed /\ dog.elapsed = e)
             ~> (dog.fired = 1 \/ (dog.armed /\ dog.elapsed # e) \/ dog = NoDog)

C10_Witness ==
    dog.fired = 1 /\ loop = "recv" /\ pc = "started"

(* C11: whenever the trust-update for an audit::proc::report returns an error
   in the receive loop, the loop signals the process to terminate (one more
   syscall.Kill) in that same iteration. *)
C11_StoreErrorKills ==
    [][\A d \in AuditDocs :
         (running /\
            \/ \E f \in StoreFaults :
                  /\ updateCmd(processTable, d.cmd, d.judge, f).err
                  /\ BReceive(Received(d), f)
            \/ \E f \in {"none", "store"} :
                  /\ updateCmdTimes(judgeTable, d.cmd, f).err
                  /\ JReceive(Received(d), f))
         => kills' = kills + 1]_vars

(* C12: whenever Recv returns an error while the running flag is set, the
   loop signals the process to terminate and goes on to its next iteration:
   no store change, no outbound message, the connector is left as it is and
   the control thread is not affected. *)
C12_RecvErrorKills ==
    [][(running /\ \E f \in StoreFaults :
                      BReceive(ErrResult, f) \/ JReceive(ErrResult, f))
         =>
         /\ kills' = kills + 1
         /\ loop' = "test"
         /\ UNCHANGED <<judgeTable, processTable, sent, conn, pc>>]_vars

\* the message types in a sequence of sent messages
TypesOf(q) == {q[i].type : i \in DOMAIN q}

\* the messages a step hands to Send
NewlySent == SubSeq(sent', Len(sent) + 1, Len(sent'))

(* C13: in the background worker, when Start gets as far as reading
   proc::core::status, it sends the enable message if and only if the read
   returns the enabled value without error; after a failed read (or an absent
   key, or another value) it goes on with the two subscriptions, and with no
   other failure it returns success with the loop spawned. When Stop gets as
   far as the read, it sends the disable message if and only if the read
   returns the enabled value without error, and otherwise goes on to clear
   the running flag. *)
C13_ConfigReadNonFatal ==
    [][\A rd \in ConfigReads :
         LET enabled == ~rd.err /\ rd.value = "enabled" IN
         /\ (BStartRead(rd) /\ startFault' \notin {"connect", "initdb"})
            =>
            /\ "user::proc::enable" \in TypesOf(NewlySent) <=> enabled
            /\ ~enabled =>
                 /\ NewlySent # <<>>
                 /\ NewlySent[1] = [type |-> "user::msg::sub",
                                    arg |-> "audit::proc::report", by |-> "start"]
                 /\ startFault' = "none" => (pc' = "started" /\ loop' = "spawned")
         /\ (BStopSendsRead(rd) /\ config = "set"
               /\ (pc' = "stop_clear" \/ Len(NewlySent) = 3))
            =>
            /\ "user::proc::disable" \in TypesOf(NewlySent) <=> enabled
            /\ ~enabled => pc' = "stop_clear"]_vars

C13_Witness ==
    /\ variant = "background" /\ coreStatus = "enabled"
    /\ pc = "stop_clear" /\ loop # "none"
    /\ TypesOf(sent) = {"user::msg::sub", "user::msg::unsub"}

(* C14: in every reachable state either table holds at most one record per
   command; from one state to the next, across Start, the loop, Stop and a
   restart of the agent, no command's count decreases and no command that
   has a record loses it. *)
C14_StoreAppendOnly ==
    /\ [](\A c \in Cmds :
            /\ Cardinality(RowsOf(judgeTable, c)) <= 1
            /\ Cardinality(RowsOf(processTable, c)) <= 1)
    /\ [][\A c \in Cmds :
            /\ Count(c)' >= Count(c)
            /\ RowsOf(judgeTable, c) # {} => RowsOf(judgeTable', c) # {}
            /\ RowsOf(processTable, c) # {} => RowsOf(processTable', c) # {}]_vars

C14_Witness ==
    /\ variant = "background" /\ pc = "init" /\ seen0 = {"c1"}
    /\ reported["c1"] = 2 /\ Count("c1") = 3
    /\ reported["c2"] = 1 /\ Count("c2") = 1

(* C15: for every workdir, binary and list of zero or more tokens without the
   separator, parsing the joined command gives back the workdir, the binary
   and the tokens joined by single spaces (the empty string for no tokens). *)
C15_RoundTrip ==
    split.stage = "parsed" =>
        split.out = [panic |-> FALSE, workdir |-> split.workdir, exec |-> split.binary,
                     argv |-> Join(split.tokens, <<" ">>)]

(* C16: whatever Recv returns to the loop once the running flag is cleared, an
   error or a message, is not processed: no self-termination signal, no store
   change, no outbound message, no kick of the watchdog. *)
C16_NothingAfterStop ==
    [][(~running /\ (BLoopRecv \/ JLoopRecv))
         => UNCHANGED <<judgeTable, processTable, sent, kills, dog>>]_vars

\* the messages Start handed to Send, in order
StartMsgs(q) == SelectSeq(q, LAMBDA m : m.by = "start")

\* the step of Start a message belongs to: enable, subscribe, replay
StartRank(m) ==
    CASE m.type = "user::proc::enable" -> 1
      [] m.type = "user::msg::sub" -> 2
      [] m.type = "user::proc::trusted::insert" -> 3
      [] OTHER -> 0

(* C17: Start sends nothing unless the connector was opened and the schema
   ensured; its messages come in the order enable, subscriptions, replayed
   trust-insertions; the loop does not exist while Start sends, and once the
   loop exists Start sends nothing more, so no event is handled (no record
   changes) before the replay is over. *)
C17_StartOrder ==
    /\ [](LET q == StartMsgs(sent) IN
          /\ q # <<>> => (conn # "closed" /\ startFault \notin {"connect", "initdb"})
          /\ (variant = "background" /\ q # <<>>) => config = "set"
          /\ \A i, j \in DOMAIN q :
                i < j => (StartRank(q[i]) # 0 /\ StartRank(q[i]) <= StartRank(q[j])))
    /\ [][pc' # "init" =>
            /\ loop # "none" => StartMsgs(sent') = StartMsgs(sent)
            /\ StartMsgs(sent') # StartMsgs(sent) =>
                  UNCHANGED <<judgeTable, processTable, reported, kills>>
            /\ (loop = "none" /\ loop' # "none") =>
                  (loop' = "spawned" /\ pc = "init" /\ pc' = "started")]_vars

C17_Witness ==
    /\ variant = "background" /\ loop = "recv" /\ pc = "started"
    /\ Len(StartMsgs(sent)) = 5 /\ StartRank(sent[1]) = 1 /\ StartRank(sent[5]) = 3
    /\ reported["c1"] = 1

\* the messages Stop handed to Send, in order
StopMsgs(q) == SelectSeq(q, LAMBDA m : m.by = "stop")

\* the step of Stop a message belongs to: unsubscribe, disable
StopRank(m) ==
    CASE m.type = "user::msg::unsub" -> 1
      [] m.type = "user::proc::disable" -> 2
      [] OTHER -> 0

\* Stop has got past its Send calls without an error
StopPastSends == pc \in {"stop_clear", "stop_shutdown", "stop_wait", "stopped"}

(* C18: a Stop that meets no error has sent one unsubscribe for every event
   class Start subscribed to, then the disable message (the judge worker
   always, the background worker only with the enabled value stored), and
   nothing else; only then is the running flag cleared, only with the flag
   cleared is the connector shut down, and only after the loop has exited is
   the connector closed: it is never closed while the loop runs. *)
C18_StopOrder ==
    /\ [](LET u == StopMsgs(sent) IN
          /\ StopPastSends =>
               /\ \A i \in DOMAIN sent :
                     sent[i].type = "user::msg::sub" =>
                        \E k \in DOMAIN u :
                           u[k].type = "user::msg::unsub" /\ u[k].arg = sent[i].arg
               /\ \A i, j \in DOMAIN u :
                     i < j => (StopRank(u[i]) = 1 /\ StopRank(u[j]) # 0)
               /\ variant = "judge" => StopRank(u[Len(u)]) = 2
               /\ (variant = "background" /\ StopRank(u[Len(u)]) = 2)
                     => coreStatus = "enabled"
          /\ conn = "gone" => loop \in {"none", "done"}
          /\ pc = "stopped" => (~running /\ conn = "gone" /\ wg = 0))
    /\ [][pc' # "init" =>
            /\ (running /\ ~running') => (pc = "stop_clear" /\ conn # "shut")
            /\ (conn # "shut" /\ conn' = "shut") => (pc = "stop_shutdown" /\ ~running)
            /\ (conn # "gone" /\ conn' = "gone") =>
                  (pc = "stop_wait" /\ conn = "shut" /\ loop \in {"none", "done"})
            /\ StopPastSends => StopMsgs(sent') = StopMsgs(sent)]_vars

C18_Witness ==
    /\ variant = "background" /\ coreStatus = "enabled"
    /\ pc = "stopped" /\ loop = "done" /\ conn = "gone"
    /\ Len(StopMsgs(sent)) = 3 /\ Len(StartMsgs(sent)) >= 3

\* well-formed documents whose type is a string other than audit::proc::report
OtherDocs == {d \in Inbound : d.wf /\ d.type \notin {"audit::proc::report", "<absent>", "<nonstring>"}}

(* C19: a received well-formed message of a type other than
   audit::proc::report changes no record, sends nothing and signals nothing;
   an osinfo::report kicks the watchdog of the background worker and any
   other such type leaves the watchdog alone; an audit::proc::report never
   kicks the watchdog. *)
C19_OtherTypesIgnored ==
    [][/\ \A d \in OtherDocs :
            (running /\ \E f \in StoreFaults :
                           BReceive(Received(d), f) \/ JReceive(Received(d), f))
            =>
            /\ UNCHANGED <<judgeTable, processTable, sent, kills, reported, pc>>
            /\ loop' = "test"
            /\ IF variant = "background" /\ d.type = "osinfo::report"
               THEN dog' = [armed |-> TRUE, elapsed |-> 0, fired |-> 0]
               ELSE dog' = dog
       /\ \A d \in AuditDocs :
            (running /\ \E f \in StoreFaults :
                           BReceive(Received(d), f) \/ JReceive(Received(d), f))
            => dog' = dog]_vars

\* the loop is in Recv with the watchdog part of its interval on, so that a
\* kick, or its absence, shows in the next state
C19_Witness ==
    /\ variant = "background" /\ loop = "recv" /\ running /\ conn = "open"
    /\ dog.armed /\ dog.elapsed = 1
    /\ kills = 0 /\ Len(processTable) = 2 /\ reported["c1"] = 1

\* the goroutine of run exists and has not returned
LiveLoop == loop \in {"spawned", "test", "recv"}

(* C20: the WaitGroup counts one receive loop while one is alive and none
   otherwise, and from a successful Start until Stop is called one is alive;
   the store changes only in an iteration of that loop, between its Recv and
   its next test of the flag, and one iteration applies one event: at most
   one command's count changes, by one. So the events are applied one at a
   time, each before the next Recv. *)
C20_OneLoopInOrder ==
    /\ [](/\ loop # "panic" => wg = (IF LiveLoop THEN 1 ELSE 0)
          /\ pc = "started" => LiveLoop)
    /\ [][pc' # "init" =>
            /\ <<judgeTable, processTable, reported>>' # <<judgeTable, processTable, reported>>
                  => (loop = "recv" /\ loop' = "test" /\ pc' = pc)
            /\ \A c \in Cmds : Count(c)' <= Count(c) + 1
            /\ \A c, e \in Cmds :
                  (Count(c)' # Count(c) /\ Count(e)' # Count(e)) => c = e]_vars

C20_Witness ==
    /\ pc = "started" /\ loop = "recv" /\ wg = 1
    /\ reported["c1"] = 2 /\ reported["c2"] = 1

(* C21: no step of the agent (Start, an iteration of the loop, Stop, a
   restart) changes the status of a record of the process table; a step
   changes at most count and judge of existing records, a record it adds has
   status 0, and so the list of commands selected for replay stays the same. *)
C21_StatusUntouched ==
    [][/\ Len(processTable') >= Len(processTable)
       /\ \A i \in DOMAIN processTable :
             /\ processTable'[i].cmd = processTable[i].cmd
             /\ processTable'[i].status = processTable[i].status
       /\ \A i \in DOMAIN processTable' \ DOMAIN processTable :
             processTable'[i].status = 0
       /\ [i \in DOMAIN SelectSeq(processTable', LAMBDA r : r.status = 2) |->
              SelectSeq(processTable', LAMBDA r : r.status = 2)[i].cmd]
          = [i \in DOMAIN SelectSeq(processTable, LAMBDA r : r.status = 2) |->
              SelectSeq(processTable, LAMBDA r : r.status = 2)[i].cmd]]_vars

C21_Witness ==
    /\ variant = "background" /\ pc = "init" /\ seen0 = {"c1"}
    /\ processTable = <<[cmd |-> "c1", count |-> 3, judge |-> 0, status |-> 2],
                        [cmd |-> "c2", count |-> 3, judge |-> 1, status |-> 0]>>

(* C22: when Start has returned an error without spawning the loop, a Stop
   called afterwards comes to an end without a crash of the process,
   whichever startup step failed. *)
C22_StopAfterFailedStart ==
    (startFault # "none" /\ loop = "none") => pc # "crashed"

(* C23: in the judge worker, a Start that succeeds has sent exactly one
   trust-insertion for every command whose stored count is 3 or more and none
   for any other command; the loop has sent one for a command only if its
   stored count is 3 or more, and a stored count never decreases, also not
   over a restart: so what an earlier run announced is announced again, once,
   by every later successful Start, and nothing below the threshold is. *)
C23_JudgeReplay ==
    /\ [](variant = "judge" =>
            \A c \in Cmds : InsertsBy(c, "loop") > 0 => Count(c) >= 3)
    /\ [][variant = "judge" =>
            /\ \A c \in Cmds : Count(c)' >= Count(c)
            /\ (JStart /\ pc' = "started") =>
                  \A c \in Cmds :
                     InsertsBy(c, "start")' = (IF Count(c) >= 3 THEN 1 ELSE 0)]_vars

C23_Witness ==
    /\ variant = "judge" /\ pc = "started" /\ loop = "spawned"
    /\ Count("c1") = 3 /\ Count("c2") = 2
    /\ InsertsBy("c1", "start") = 1 /\ InsertsBy("c2", "start") = 0

====
